---- MODULE Spec2Model ----
(***************************************************************************)
(* TSF (time-series file) writer, segment builder and reader of rtimedb.   *)
(* The file at the writer's path is a byte sequence; the writer owns a     *)
(* SegmentData (header + typed column vectors) and appends the file header *)
(* and the segment to the file; the reader parses the bytes back.          *)
(***************************************************************************)
EXTENDS Integers, Sequences, FiniteSets, TLC

VARIABLES
  fs_exists,     \* a file exists at the path
  fs_bytes,      \* its contents (<<>> when absent)
  w_state,       \* TSFWriter lifecycle: "none", "open", "dropped"
  file_exists,   \* TSFWriter.file_exists
  cleanup,       \* TSFWriter.cleanup
  segment_data,  \* TSFWriter.segment_data (a SegmentData)
  saves,         \* results of the try_save calls made so far, in order
  late,          \* builder calls made since the first try_save
  last,          \* the last call and what it returned
  reader         \* TSFReader: state, file position, file_header, segment_data

vars == <<fs_exists, fs_bytes, w_state, file_exists, cleanup, segment_data, saves, late, last, reader>>

-----------------------------------------------------------------------------
(* Bounds of the explored scenarios *)

\* most column headers a scenario declares
MaxCols == 2
\* most try_save calls on one writer
MaxSaves == 2
\* most rows of a vector handed to SegmentData::add_column_data directly
MaxRows == 2
\* most builder calls (schema, data, dates) a scenario makes after its first try_save
MaxLate == 1
\* greatest element-type code looked up or put in a descriptor on disk
MaxTypeCode == 20
\* integers read from bytes are clamped here, the largest integer of the model: the
\* code only compares such a value with sizes and counts far below it
IntCap == 1073741823 * 2 + 1

-----------------------------------------------------------------------------
(* Option<T>: None is <<>>, Some(x) is <<x>> *)

None == <<>>
Some(x) == <<x>>
IsSome(o) == o # <<>>
Unwrap(o) == o[1]

Ok == "Ok"

-----------------------------------------------------------------------------
(* types.rs *)

EnumDataType == {"Int8", "Int16", "Int32", "Int64", "UInt8", "UInt16", "UInt32", "UInt64",
                 "Float32", "Float64", "Boolean", "DateTime32", "DateTime64"}

\* the #[repr(u16)] discriminants
TypeCode(t) ==
  CASE t = "Int8" -> 1 [] t = "Int16" -> 2 [] t = "Int32" -> 3 [] t = "Int64" -> 4
    [] t = "UInt8" -> 6 [] t = "UInt16" -> 7 [] t = "UInt32" -> 8 [] t = "UInt64" -> 9
    [] t = "Float32" -> 11 [] t = "Float64" -> 12 [] t = "Boolean" -> 13
    [] t = "DateTime32" -> 16 [] t = "DateTime64" -> 17

\* from_u16 taking the reserved codes 5 and 10 for the 64-bit integers
from_u16_ReservedAccepted(value) ==
  CASE value = 1 -> Some("Int8") [] value = 2 -> Some("Int16") [] value = 3 -> Some("Int32")
    [] value \in {4, 5} -> Some("Int64") [] value = 6 -> Some("UInt8") [] value = 7 -> Some("UInt16")
    [] value = 8 -> Some("UInt32") [] value \in {9, 10} -> Some("UInt64") [] value = 11 -> Some("Float32")
    [] value = 12 -> Some("Float64") [] value = 13 -> Some("Boolean")
    [] value = 16 -> Some("DateTime32") [] value = 17 -> Some("DateTime64")
    [] OTHER -> None

\* EnumDataType::from_u16: Option<EnumDataType>
from_u16(value) ==
  CASE value = 1 -> Some("Int8") [] value = 2 -> Some("Int16") [] value = 3 -> Some("Int32")
    [] value = 4 -> Some("Int64") [] value = 6 -> Some("UInt8") [] value = 7 -> Some("UInt16")
    [] value = 8 -> Some("UInt32") [] value = 9 -> Some("UInt64") [] value = 11 -> Some("Float32")
    [] value = 12 -> Some("Float64") [] value = 13 -> Some("Boolean")
    [] value = 16 -> Some("DateTime32") [] value = 17 -> Some("DateTime64")
    [] OTHER -> None

EnumDataEnc == {"None", "Delta", "DoubleDelta"}
EncCode(e) == CASE e = "None" -> 0 [] e = "Delta" -> 1 [] e = "DoubleDelta" -> 2
EnumDataEnc_from_u8(value) ==
  CASE value = 0 -> Some("None") [] value = 1 -> Some("Delta") [] value = 2 -> Some("DoubleDelta")
    [] OTHER -> None

EnumDataComp == {"None", "ZStd"}
CompCode(c) == CASE c = "None" -> 0 [] c = "ZStd" -> 1
EnumDataComp_from_u8(value) ==
  CASE value = 0 -> Some("None") [] value = 1 -> Some("ZStd") [] OTHER -> None

\* EnumColumnData: a variant tag (named by its element type) and its Vec
EnumColumnData(variant, vec) == [variant |-> variant, vec |-> vec]

\* EnumColumnData::from_enum_data_type: the empty vector of the variant
from_enum_data_type(data_type) == EnumColumnData(data_type, <<>>)

-----------------------------------------------------------------------------
(* Little-endian integers (byteorder): two's complement, least significant  *)
(* byte first.  Computed digit by digit so that no power of 256 is formed.  *)

RECURSIVE ULEBytes(_, _)
ULEBytes(v, w) == IF w = 0 THEN <<>> ELSE <<v % 256>> \o ULEBytes(v \div 256, w - 1)

Complement(bytes) == [i \in 1..Len(bytes) |-> 255 - bytes[i]]

\* write_iN::<LittleEndian> / write_uN::<LittleEndian> of value v on w bytes
LEBytes(v, w) == IF v >= 0 THEN ULEBytes(v, w) ELSE Complement(ULEBytes(-(v + 1), w))

RECURSIVE ULEValue(_)
ULEValue(bytes) ==
  IF bytes = <<>> THEN 0
  ELSE LET hi == ULEValue(Tail(bytes))
       IN  IF hi > (IntCap - 255) \div 256 THEN IntCap ELSE bytes[1] + 256 * hi

\* read_iN::<LittleEndian>
SLEValue(bytes) ==
  IF bytes[Len(bytes)] >= 128 THEN -ULEValue(Complement(bytes)) - 1 ELSE ULEValue(bytes)

RECURSIVE Flatten(_)
Flatten(ss) == IF ss = <<>> THEN <<>> ELSE ss[1] \o Flatten(Tail(ss))

RECURSIVE SumSeq(_)
SumSeq(s) == IF s = <<>> THEN 0 ELSE s[1] + SumSeq(Tail(s))

Slice(s, from, n) == SubSeq(s, from, from + n - 1)

-----------------------------------------------------------------------------
(* segment_column_data.rs: the column codec *)

\* bytes per element of each variant, as written by convert_data_into_buffer
ElementWidth(variant) ==
  CASE variant \in {"Int8", "UInt8", "Boolean"} -> 1
    [] variant \in {"Int16", "UInt16"} -> 2
    [] variant \in {"Int32", "UInt32", "Float32", "DateTime32"} -> 4
    [] variant \in {"Int64", "UInt64", "Float64", "DateTime64"} -> 8

\* one element: write_i8 .. write_f64 (floats as their bit pattern), bool as 255 / 0
ElementBytes(variant, value) ==
  IF variant = "Boolean" THEN (IF value THEN <<255>> ELSE <<0>>)
  ELSE LEBytes(value, ElementWidth(variant))

\* every element read back with the unsigned read of its width
ElementValue_AllUnsigned(variant, bytes) ==
  IF variant = "Boolean" THEN bytes[1] # 0 ELSE ULEValue(bytes)

\* one element read back: read_i8 .. read_f64, bool as "not zero"
ElementValue(variant, bytes) ==
  CASE variant = "Boolean" -> (bytes[1] # 0)
    [] variant \in {"Int8", "Int16", "Int32", "Int64", "DateTime32", "DateTime64"} -> SLEValue(bytes)
    [] OTHER -> ULEValue(bytes)

\* SegmentColumnData
SegmentColumnData(data, encoding, compression, buffer) ==
  [data |-> data, encoding |-> encoding, compression |-> compression, buffer |-> buffer]

\* SegmentColumnData::new
SegmentColumnData_new(data_type, encoding, compression) ==
  SegmentColumnData(from_enum_data_type(data_type), encoding, compression, None)

\* the buffer convert_data_into_buffer prepares: every element in order
DataBuffer(data) ==
  Flatten([i \in 1..Len(data.vec) |-> ElementBytes(data.variant, data.vec[i])])

\* SegmentColumnData::convert_data_into_buffer: buffer = Some(bytes), returns their number
convert_data_into_buffer(column_data) ==
  [column_data EXCEPT !.buffer = Some(DataBuffer(column_data.data))]

\* the vector convert_buffer_into_data rebuilds: whole elements while the cursor
\* yields them; a trailing partial element ends the loop and is dropped
BufferData(variant, buffer) ==
  LET w == ElementWidth(variant)
      n == Len(buffer) \div w
  IN  EnumColumnData(variant, [i \in 1..n |-> ElementValue(variant, Slice(buffer, (i - 1) * w + 1, w))])

\* SegmentColumnData::convert_buffer_into_data: takes the buffer (Err when there is none)
convert_buffer_into_data(column_data) ==
  IF ~IsSome(column_data.buffer)
  THEN [res |-> "Buffer is empty", column |-> column_data]
  ELSE [res |-> Ok,
        column |-> [column_data EXCEPT
                      !.data = BufferData(column_data.data.variant, Unwrap(column_data.buffer)),
                      !.buffer = None]]

-----------------------------------------------------------------------------
(* segment_data_header.rs: SegmentColumnHeader *)

\* SegmentColumnHeader::new (column_name is its UTF-8 bytes)
SegmentColumnHeader_new(column_name, column_type, column_enc, column_comp) ==
  [column_name_length |-> Len(column_name),
   column_name        |-> column_name,
   column_type        |-> column_type,
   column_meta_length |-> 0,
   column_enc         |-> column_enc,
   column_comp        |-> column_comp,
   column_size        |-> 0,
   column_check       |-> [i \in 1..8 |-> 0]]

\* SegmentColumnHeader::byte_size
byte_size(h) == 2 + Len(h.column_name) + 2 + 2 + h.column_meta_length + 1 + 1 + 8 + 8

\* SegmentColumnHeader::prepare_buffer
prepare_buffer(h) ==
  LEBytes(h.column_name_length, 2) \o h.column_name \o LEBytes(TypeCode(h.column_type), 2)
    \o LEBytes(h.column_meta_length, 2) \o <<EncCode(h.column_enc)>> \o <<CompCode(h.column_comp)>>
    \o LEBytes(h.column_size, 8) \o h.column_check

\* String::from_utf8 on the name bytes (the names explored are ASCII or hold a byte >= 0x80
\* that is no valid UTF-8 on its own)
ValidUtf8(bytes) == \A i \in 1..Len(bytes) : bytes[i] < 128

\* SegmentColumnHeader::read_from_buffer on a cursor at pos (0-based) over buf:
\* [res, header, pos]
read_from_buffer(buf, pos) ==
  LET Left(p) == Len(buf) - p
      Fail(msg, p) == [res |-> msg, header |-> None, pos |-> p]
  IN
  IF Left(pos) < 2 THEN Fail("Failed to read column name length", pos) ELSE
  LET column_name_length == ULEValue(Slice(buf, pos + 1, 2))
      p1 == pos + 2
  IN
  IF Left(p1) < column_name_length THEN Fail("Failed to read column name", p1) ELSE
  LET column_name == Slice(buf, p1 + 1, column_name_length)
      p2 == p1 + column_name_length
  IN
  IF ~ValidUtf8(column_name) THEN Fail("invalid utf-8 sequence", p2) ELSE
  IF Left(p2) < 2 THEN Fail("Failed to read column type", p2) ELSE
  IF Left(p2) < 4 THEN Fail("Failed to read column meta length", p2 + 2) ELSE
  IF Left(p2) < 5 THEN Fail("Failed to read column encoding", p2 + 4) ELSE
  IF Left(p2) < 6 THEN Fail("Failed to read column compression", p2 + 5) ELSE
  IF Left(p2) < 14 THEN Fail("Failed to read column size", p2 + 6) ELSE
  IF Left(p2) < 22 THEN Fail("Failed to read column check", p2 + 14) ELSE
  LET column_type == from_u16(ULEValue(Slice(buf, p2 + 1, 2)))
      column_meta_length == ULEValue(Slice(buf, p2 + 3, 2))
      column_enc == EnumDataEnc_from_u8(buf[p2 + 5])
      column_comp == EnumDataComp_from_u8(buf[p2 + 6])
      column_size == ULEValue(Slice(buf, p2 + 7, 8))
      column_check == Slice(buf, p2 + 15, 8)
      p3 == p2 + 22
  IN
  IF ~IsSome(column_type) THEN Fail("Invalid column type", p3) ELSE
  IF ~IsSome(column_enc) THEN Fail("Invalid encoding type", p3) ELSE
  IF ~IsSome(column_comp) THEN Fail("Invalid compression type", p3) ELSE
  [res |-> Ok,
   header |-> Some([column_name_length |-> column_name_length,
                    column_name        |-> column_name,
                    column_type        |-> Unwrap(column_type),
                    column_meta_length |-> column_meta_length,
                    column_enc         |-> Unwrap(column_enc),
                    column_comp        |-> Unwrap(column_comp),
                    column_size        |-> column_size,
                    column_check       |-> column_check]),
   pos |-> p3]

-----------------------------------------------------------------------------
(* segment_data_header.rs: SegmentDataHeader *)

\* SegmentDataHeader::new
SegmentDataHeader_new ==
  [tombstone          |-> FALSE,
   next_offset        |-> None,
   uuid_txid          |-> None,
   date_start         |-> None,
   date_end           |-> None,
   row_count          |-> 0,
   column_count       |-> 0,
   ts_column          |-> None,
   column_header_size |-> 0,
   column_headers     |-> <<>>,
   segment_check      |-> None]

\* sum of byte_size over the descriptors
HeadersByteSize(column_headers) ==
  SumSeq([i \in 1..Len(column_headers) |-> byte_size(column_headers[i])])

\* SegmentDataHeader::add_column_header: [header, index]
Header_add_column_header(h, column_header) ==
  LET column_headers == Append(h.column_headers, column_header)
  IN  [header |-> [h EXCEPT !.column_headers = column_headers,
                            !.column_count = Len(column_headers),
                            !.column_header_size = HeadersByteSize(column_headers)],
       index  |-> Len(column_headers) - 1]

\* the Err strings of set_ts_column, by the error kind each stands for
TimestampOutOfBounds == "Timestamp column index out of bounds."
TimestampAlreadySet == "Timestamp column already set."

\* set_ts_column without its test for an index already recorded
set_ts_column_Overwrites(h, ts_column_index) ==
  IF ts_column_index >= Len(h.column_headers)
  THEN [res |-> "Timestamp column index out of bounds.", header |-> h]
  ELSE [res |-> Ok, header |-> [h EXCEPT !.ts_column = Some(ts_column_index)]]

\* SegmentDataHeader::set_ts_column: [res, header]
set_ts_column(h, ts_column_index) ==
  IF ts_column_index >= Len(h.column_headers)
  THEN [res |-> "Timestamp column index out of bounds.", header |-> h]
  ELSE IF IsSome(h.ts_column)
  THEN [res |-> "Timestamp column already set.", header |-> h]
  ELSE [res |-> Ok, header |-> [h EXCEPT !.ts_column = Some(ts_column_index)]]

\* the fixed size calculate_header_size adds to column_header_size:
\* 1 + 4 + 16 + 8 + 8 + 4 + 2 + 2 + 4 + 8
FixedSize == 1 + 4 + 16 + 8 + 8 + 4 + 2 + 2 + 4 + 8

\* calculate_header_size leaving the 8 bytes of segment_check out
calculate_header_size_NoChecksum(h) == 49 + h.column_header_size

\* SegmentDataHeader::calculate_header_size
calculate_header_size(h) == FixedSize + h.column_header_size

\* SegmentDataHeader::calculate_checksum: the placeholder [0xBB; 8]
calculate_checksum == [i \in 1..8 |-> 187]

\* the Err messages of write_header for an unset Option field
MissingField ==
  { "next_offset was not set", "uuid_txid was not set", "date_start was not set",
    "date_end was not set", "ts_column was not set" }

\* write_header writing each field to the file as it goes: the tombstone byte is
\* out before the first unset field is met
Header_write_header_Unbuffered(h) ==
  IF ~IsSome(h.next_offset) \/ ~IsSome(h.uuid_txid) \/ ~IsSome(h.date_start)
       \/ ~IsSome(h.date_end) \/ ~IsSome(h.ts_column)
  THEN [res |-> "next_offset was not set", header |-> h,
        bytes |-> <<IF h.tombstone THEN 1 ELSE 0>>]
  ELSE [res |-> Ok, header |-> [h EXCEPT !.segment_check = Some(calculate_checksum)],
        bytes |-> <<IF h.tombstone THEN 1 ELSE 0>>
          \o LEBytes(Unwrap(h.next_offset), 4) \o Unwrap(h.uuid_txid)
          \o LEBytes(Unwrap(h.date_start), 8) \o LEBytes(Unwrap(h.date_end), 8)
          \o LEBytes(h.row_count, 4) \o LEBytes(h.column_count, 2)
          \o LEBytes(Unwrap(h.ts_column), 2)
          \o LEBytes(Len(Flatten([i \in 1..Len(h.column_headers) |-> prepare_buffer(h.column_headers[i])])), 4)
          \o Flatten([i \in 1..Len(h.column_headers) |-> prepare_buffer(h.column_headers[i])])
          \o calculate_checksum]

\* write_header writing the column_header_size the struct holds instead of the
\* length of the descriptors it has just serialised
Header_write_header_StaleSize(h) ==
  IF ~IsSome(h.next_offset) THEN [res |-> "next_offset was not set", header |-> h, bytes |-> <<>>] ELSE
  IF ~IsSome(h.uuid_txid) THEN [res |-> "uuid_txid was not set", header |-> h, bytes |-> <<>>] ELSE
  IF ~IsSome(h.date_start) THEN [res |-> "date_start was not set", header |-> h, bytes |-> <<>>] ELSE
  IF ~IsSome(h.date_end) THEN [res |-> "date_end was not set", header |-> h, bytes |-> <<>>] ELSE
  IF ~IsSome(h.ts_column) THEN [res |-> "ts_column was not set", header |-> h, bytes |-> <<>>] ELSE
  [res |-> Ok, header |-> [h EXCEPT !.segment_check = Some(calculate_checksum)],
   bytes |-> <<IF h.tombstone THEN 1 ELSE 0>>
     \o LEBytes(Unwrap(h.next_offset), 4) \o Unwrap(h.uuid_txid)
     \o LEBytes(Unwrap(h.date_start), 8) \o LEBytes(Unwrap(h.date_end), 8)
     \o LEBytes(h.row_count, 4) \o LEBytes(h.column_count, 2)
     \o LEBytes(Unwrap(h.ts_column), 2)
     \o LEBytes(h.column_header_size, 4)
     \o Flatten([i \in 1..Len(h.column_headers) |-> prepare_buffer(h.column_headers[i])])
     \o calculate_checksum]

\* SegmentDataHeader::write_header: [res, header, bytes]; bytes is what write_all
\* appends to the file, nothing when a field is unset
Header_write_header(h) ==
  LET Fail(msg) == [res |-> msg, header |-> h, bytes |-> <<>>]
  IN
  IF ~IsSome(h.next_offset) THEN Fail("next_offset was not set") ELSE
  IF ~IsSome(h.uuid_txid) THEN Fail("uuid_txid was not set") ELSE
  IF ~IsSome(h.date_start) THEN Fail("date_start was not set") ELSE
  IF ~IsSome(h.date_end) THEN Fail("date_end was not set") ELSE
  IF ~IsSome(h.ts_column) THEN Fail("ts_column was not set") ELSE
  LET column_headers_buffer ==
        Flatten([i \in 1..Len(h.column_headers) |-> prepare_buffer(h.column_headers[i])])
      column_header_size == Len(column_headers_buffer)
      buffer ==
        <<IF h.tombstone THEN 1 ELSE 0>>
          \o LEBytes(Unwrap(h.next_offset), 4)
          \o Unwrap(h.uuid_txid)
          \o LEBytes(Unwrap(h.date_start), 8)
          \o LEBytes(Unwrap(h.date_end), 8)
          \o LEBytes(h.row_count, 4)
          \o LEBytes(h.column_count, 2)
          \o LEBytes(Unwrap(h.ts_column), 2)
          \o LEBytes(column_header_size, 4)
          \o column_headers_buffer
          \o calculate_checksum
  IN  [res |-> Ok, header |-> [h EXCEPT !.segment_check = Some(calculate_checksum)], bytes |-> buffer]

\* the fixed part read_segment_header reads first
FixedHeaderBytes == 49

\* the descriptors read_segment_header parses from the dynamic buffer: a recursion
\* over the column_count iterations of its loop; [res, headers]
RECURSIVE ReadColumnHeaders(_, _, _, _)
ReadColumnHeaders(buf, pos, remaining, acc) ==
  IF remaining = 0 THEN [res |-> Ok, headers |-> acc]
  ELSE LET r == read_from_buffer(buf, pos)
       IN  IF r.res # Ok THEN [res |-> r.res, headers |-> acc]
           ELSE ReadColumnHeaders(buf, r.pos, remaining - 1, Append(acc, Unwrap(r.header)))

\* SegmentDataHeader::read_segment_header from the file bytes at position pos (0-based):
\* [res, header, pos].  A read_exact that meets the end of the file fails with
\* UnexpectedEof having consumed what was left.
read_segment_header(h, bytes, pos) ==
  IF Len(bytes) - pos < FixedHeaderBytes
  THEN [res |-> "UnexpectedEof", header |-> h, pos |-> Len(bytes)]
  ELSE
  LET b == Slice(bytes, pos + 1, FixedHeaderBytes)
      h1 == [h EXCEPT !.tombstone = (b[1] # 0),
                      !.next_offset = Some(ULEValue(Slice(b, 2, 4))),
                      !.uuid_txid = Some(Slice(b, 6, 16)),
                      !.date_start = Some(SLEValue(Slice(b, 22, 8))),
                      !.date_end = Some(SLEValue(Slice(b, 30, 8))),
                      !.row_count = ULEValue(Slice(b, 38, 4)),
                      !.column_count = ULEValue(Slice(b, 42, 2)),
                      !.ts_column = Some(ULEValue(Slice(b, 44, 2))),
                      !.column_header_size = ULEValue(Slice(b, 46, 4))]
      p1 == pos + FixedHeaderBytes
      total_size == h1.column_header_size + 8
  IN
  IF Len(bytes) - p1 - 8 < h1.column_header_size
  THEN [res |-> "UnexpectedEof", header |-> h1, pos |-> Len(bytes)]
  ELSE
  LET dynamic_buffer == Slice(bytes, p1 + 1, total_size)
      cols == ReadColumnHeaders(dynamic_buffer, 0, h1.column_count, <<>>)
      h2 == [h1 EXCEPT !.column_headers = cols.headers]
      p2 == p1 + total_size
  IN
  IF cols.res # Ok
  THEN [res |-> cols.res, header |-> h2, pos |-> p2]
  ELSE [res |-> Ok,
        header |-> [h2 EXCEPT !.segment_check = Some(Slice(dynamic_buffer, total_size - 8 + 1, 8))],
        pos |-> p2]

-----------------------------------------------------------------------------
(* segment_data.rs: SegmentData *)

\* SegmentData::new
SegmentData_new == [data_header |-> SegmentDataHeader_new, data |-> <<>>]

\* SegmentData::start_tx with the bytes of a fresh uuid7
start_tx(seg, txid) == [seg EXCEPT !.data_header.uuid_txid = Some(txid)]

\* SegmentData::get_column_count, get_row_count
get_column_count(seg) == seg.data_header.column_count
get_row_count(seg) == seg.data_header.row_count

\* SegmentData::add_column_header: [res, segment]; the descriptor is pushed before
\* set_ts_column is tried
add_column_header(seg, column_header, ts_column) ==
  LET added == Header_add_column_header(seg.data_header, column_header)
      ts == set_ts_column(added.header, added.index)
  IN  IF ts_column
      THEN [res |-> ts.res, segment |-> [seg EXCEPT !.data_header = ts.header]]
      ELSE [res |-> Ok, segment |-> [seg EXCEPT !.data_header = added.header]]

\* the data_row_count match of add_column_data: only three variants are probed,
\* every other one counts as 0 rows
data_row_count(data) ==
  IF data.variant \in {"Int8", "Int16", "Int32"} THEN Len(data.vec) ELSE 0

\* the Err strings of add_column_data, by the error kind each stands for
ExcessData == "No corresponding column header for the data."
EmptyColumn == "Zero rows added"
RowCountMismatch == "Inconsistent number of rows."

\* add_column_data without its row-count comparison
add_column_data_NoRowCheck(seg, column_data) ==
  IF seg.data_header.column_count <= Len(seg.data)
  THEN [res |-> ExcessData, segment |-> seg]
  ELSE IF data_row_count(column_data.data) = 0
  THEN [res |-> EmptyColumn, segment |-> seg]
  ELSE [res |-> Ok,
        segment |-> [seg EXCEPT !.data_header.row_count =
                                  IF @ # 0 THEN @ ELSE data_row_count(column_data.data),
                                !.data = Append(@, column_data)]]

\* SegmentData::add_column_data: [res, segment]
add_column_data(seg, column_data) ==
  IF seg.data_header.column_count <= Len(seg.data)
  THEN [res |-> ExcessData, segment |-> seg]
  ELSE IF data_row_count(column_data.data) = 0
  THEN [res |-> EmptyColumn, segment |-> seg]
  ELSE IF seg.data_header.row_count # 0
  THEN IF seg.data_header.row_count # data_row_count(column_data.data)
       THEN [res |-> RowCountMismatch, segment |-> seg]
       ELSE [res |-> Ok, segment |-> [seg EXCEPT !.data = Append(@, column_data)]]
  ELSE [res |-> Ok,
        segment |-> [seg EXCEPT !.data_header.row_count = data_row_count(column_data.data),
                                !.data = Append(@, column_data)]]

\* SegmentData::update_header_dates
update_header_dates(seg, date_start, date_end) ==
  [seg EXCEPT !.data_header.date_start = Some(date_start),
              !.data_header.date_end = Some(date_end)]

\* SegmentData::write_to_file: [res, segment, bytes]; bytes is all that the call
\* appends to the file.  The buffers, column sizes, column_header_size and
\* next_offset are set before the header is written, whether or not that succeeds.
write_to_file(seg) ==
  LET data == [i \in 1..Len(seg.data) |-> convert_data_into_buffer(seg.data[i])]
      sizes == [i \in 1..Len(data) |-> Len(Unwrap(data[i].buffer))]
      column_headers ==
        [i \in 1..Len(seg.data_header.column_headers) |->
           IF i <= Len(data)
           THEN [seg.data_header.column_headers[i] EXCEPT !.column_size = sizes[i]]
           ELSE seg.data_header.column_headers[i]]
      h1 == [seg.data_header EXCEPT !.column_headers = column_headers,
                                    !.column_header_size = HeadersByteSize(column_headers)]
      h2 == [h1 EXCEPT !.next_offset = Some(calculate_header_size(h1) + SumSeq(sizes))]
      w == Header_write_header(h2)
  IN  IF w.res # Ok
      THEN [res |-> w.res, segment |-> [data_header |-> w.header, data |-> data], bytes |-> <<>>]
      ELSE [res |-> Ok, segment |-> [data_header |-> w.header, data |-> data],
            bytes |-> w.bytes \o Flatten([i \in 1..Len(data) |-> Unwrap(data[i].buffer)])]

\* SegmentData::read_segment_data from the file bytes at pos: a recursion over the
\* descriptors; [res, data, pos]
RECURSIVE ReadColumns(_, _, _, _)
ReadColumns(column_headers, bytes, pos, acc) ==
  IF column_headers = <<>> THEN [res |-> Ok, data |-> acc, pos |-> pos]
  ELSE LET header == column_headers[1]
           column_data == SegmentColumnData_new(header.column_type, header.column_enc, header.column_comp)
       IN  IF Len(bytes) - pos < header.column_size
           THEN [res |-> "UnexpectedEof", data |-> acc, pos |-> Len(bytes)]
           ELSE LET filled == [column_data EXCEPT !.buffer = Some(Slice(bytes, pos + 1, header.column_size))]
                    conv == convert_buffer_into_data(filled)
                IN  IF conv.res # Ok
                    THEN [res |-> conv.res, data |-> acc, pos |-> pos + header.column_size]
                    ELSE ReadColumns(Tail(column_headers), bytes, pos + header.column_size,
                                     Append(acc, conv.column))

\* the segment once read_segment_data has returned d
AfterColumns(header, d) ==
  [res |-> d.res, segment |-> [data_header |-> header, data |-> d.data], pos |-> d.pos]

\* read_segment_from_file once read_segment_header has returned h: `?` returns its
\* error, else read_segment_data runs over the descriptors it has read
AfterSegmentHeader(seg, h, bytes) ==
  IF h.res # Ok
  THEN [res |-> h.res, segment |-> [seg EXCEPT !.data_header = h.header], pos |-> h.pos]
  ELSE AfterColumns(h.header, ReadColumns(h.header.column_headers, bytes, h.pos, <<>>))

\* SegmentData::read_segment_from_file: [res, segment, pos]
read_segment_from_file(seg, bytes, pos) ==
  AfterSegmentHeader(seg, read_segment_header(seg.data_header, bytes, pos), bytes)

-----------------------------------------------------------------------------
(* header.rs: FileHeader *)

TSFD_MAGIC_NUMBER == 1414743620   \* 0x54534644
TSFD_VERSION == 1

\* FileHeader::new
FileHeader_new == [magic_number |-> TSFD_MAGIC_NUMBER, version |-> TSFD_VERSION]

\* FileHeader::write_header: the 6 bytes it appends
FileHeader_write_header(fh) == LEBytes(fh.magic_number, 4) \o LEBytes(fh.version, 2)

\* FileHeader::read_header: [res, file_header, pos]
FileHeader_read_header(fh, bytes, pos) ==
  IF Len(bytes) - pos < 6
  THEN [res |-> "UnexpectedEof", file_header |-> fh, pos |-> Len(bytes)]
  ELSE [res |-> Ok,
        file_header |-> [magic_number |-> ULEValue(Slice(bytes, pos + 1, 4)),
                         version |-> ULEValue(Slice(bytes, pos + 5, 2))],
        pos |-> pos + 6]

\* FileHeader::verify_header
verify_header(fh) == fh.magic_number = TSFD_MAGIC_NUMBER /\ fh.version = TSFD_VERSION

-----------------------------------------------------------------------------
(* The inputs the scenarios draw from *)

\* column names, as UTF-8 bytes: "t", "ab"
Name_t == <<116>>
Name_ab == <<97, 98>>

\* (name, type, encoding, compression) of the add_column_header calls
ColumnInputs ==
  { <<Name_t, "Int32", "None", "None">>,
    <<Name_t, "DateTime32", "Delta", "ZStd">>,
    <<Name_ab, "Int8", "None", "None">> }

\* the element types T of the add_column_data::<T> calls, named by the variant the
\* ColumnDataCreator impl lifts Vec<T> to (i8 and i32; i16 has one as well)
CreatorTypes == {"Int8", "Int32"}

\* the vectors of the add_column_data calls
DataVecs == { <<>>, <<2>>, <<-1, 2>> }

\* (date_start, date_end) of the update_segment_dates calls
DateRanges == { <<-1, 2>>, <<2, -1>> }

\* the bytes uuid7() may return
Uuids == { [i \in 1..16 |-> 170] }

\* what a file that exists before the writer opens it may hold
OldContents == { <<7, 7, 7>> }

\* a call, its argument where a scenario records it, and what it returned
Call(op, res) == [op |-> op, arg |-> <<>>, res |-> res]
CallWith(op, arg, res) == [op |-> op, arg |-> arg, res |-> res]

-----------------------------------------------------------------------------
(* tsf_reader.rs: TSFReader *)

\* no reader yet
NoReader == [state |-> "none", pos |-> 0, file_header |-> FileHeader_new,
             segment_data |-> SegmentData_new, res |-> Ok, stream |-> <<>>]

\* TSFReader::new on an existing file: nothing is read yet
OpenReader == [NoReader EXCEPT !.state = "open"]

\* the one error read_header returns when verify_header is false
VerificationFailed == "File header verification failed"

\* the reader once FileHeader::read_header has returned fh: read_header passes its
\* error on, and fails when verify_header is false
AfterFileHeader(r, fh) ==
  IF fh.res # Ok
  THEN [r EXCEPT !.pos = fh.pos, !.res = fh.res]
  ELSE [r EXCEPT !.pos = fh.pos, !.file_header = fh.file_header,
                 !.res = IF verify_header(fh.file_header) THEN Ok ELSE VerificationFailed]

\* the same without the verify_header test
AfterFileHeader_Unverified(r, fh) ==
  IF fh.res # Ok
  THEN [r EXCEPT !.pos = fh.pos, !.res = fh.res]
  ELSE [r EXCEPT !.pos = fh.pos, !.file_header = fh.file_header, !.res = Ok]

\* TSFReader::read_header
read_header(r, bytes) ==
  AfterFileHeader(r, FileHeader_read_header(r.file_header, bytes, r.pos))

\* the reader once read_segment_from_file has returned sd
AfterSegment(r, sd) == [r EXCEPT !.pos = sd.pos, !.segment_data = sd.segment, !.res = sd.res]

\* TSFReader::read_data
read_data(r, bytes) ==
  AfterSegment(r, read_segment_from_file(r.segment_data, bytes, r.pos))

\* the rest of read_all once read_header has left the reader as r1: `?` returns its
\* error, else read_data runs
AfterReadHeader(r1, bytes) ==
  [(IF r1.res # Ok THEN r1 ELSE read_data(r1, bytes)) EXCEPT !.state = "read"]

\* read_all going on to read_data whatever verify_header says
read_all_NoVerifyStop(r, bytes) ==
  AfterReadHeader(
    AfterFileHeader_Unverified(r, FileHeader_read_header(r.file_header, bytes, r.pos)), bytes)

\* TSFReader::read_all on a reader over the file bytes: the reader afterwards,
\* with res what the call returned
read_all(r, bytes) == AfterReadHeader(read_header(r, bytes), bytes)

\* the Err items stream_rows may put in its stream
ColumnDataMissing == "Column data missing"
NotImplemented == "EnumColumnData not implemented"

\* the variants the match of stream_rows has an arm for
StreamedVariants == {"Int8", "Int16", "Int32", "Int64"}

\* EnumDataValue: Int8Value(v) .. Int64Value(v)
EnumDataValue(variant, value) == [variant |-> variant, value |-> value]

\* the row_values of one row: in column order, the element at row_index (1-based)
\* of every column that has one
RECURSIVE RowValues(_, _, _)
RowValues(data, row_index, acc) ==
  IF data = <<>> THEN acc
  ELSE LET d == data[1].data
       IN  RowValues(Tail(data), row_index,
                     IF row_index <= Len(d.vec)
                     THEN Append(acc, EnumDataValue(d.variant, d.vec[row_index]))
                     ELSE acc)

\* TSFReader::stream_rows: the items of the stream, Ok rows or a single Err.  The
\* first row meets every column index below column_count in order and returns at
\* the first one without data or of a variant the match has no arm for.
stream_rows(seg) ==
  LET num_rows == get_row_count(seg)
      Bad(j) == j > Len(seg.data) \/ seg.data[j].data.variant \notin StreamedVariants
      bad == { j \in 1..get_column_count(seg) : Bad(j) }
      first == CHOOSE j \in bad : \A k \in bad : j <= k
  IN  IF num_rows = 0 THEN <<>>
      ELSE IF bad # {}
      THEN << [res |-> IF first > Len(seg.data) THEN ColumnDataMissing ELSE NotImplemented,
               values |-> <<>>] >>
      ELSE [row_index \in 1..num_rows |->
              [res |-> Ok,
               values |-> RowValues(SubSeq(seg.data, 1, get_column_count(seg)), row_index, <<>>)]]

-----------------------------------------------------------------------------
(* tsf_writer.rs: TSFWriter *)

\* Drop removing the file whenever the latch is armed
DropRemoves_IgnoresExisting(cleanup_, file_exists_) == cleanup_

\* the condition under which Drop removes the file
DropRemoves(cleanup_, file_exists_) == cleanup_ /\ ~file_exists_

\* try_save leaving the latch cleared when save fails
LatchAfterSave_NotRearmed(res) == FALSE

\* the latch try_save leaves: cleared first, armed again when save returned Err
LatchAfterSave(res) == res # Ok

\* the latch TSFWriter::new starts with
InitialCleanup == FALSE

\* save writing the segment first and the file header after it
save_HeaderLast(file_header, seg) ==
  [res |-> write_to_file(seg).res, segment |-> write_to_file(seg).segment,
   bytes |-> write_to_file(seg).bytes \o FileHeader_write_header(file_header)]

\* TSFWriter::save: [res, segment, bytes]: the file header is written first, then the segment
save(file_header, seg) ==
  LET w == write_to_file(seg)
  IN  [res |-> w.res, segment |-> w.segment, bytes |-> FileHeader_write_header(file_header) \o w.bytes]

Init ==
  /\ fs_exists \in BOOLEAN
  /\ fs_bytes \in (IF fs_exists THEN OldContents ELSE {<<>>})
  /\ w_state = "none"
  /\ file_exists = FALSE
  /\ cleanup = FALSE
  /\ segment_data = SegmentData_new
  /\ saves = <<>>
  /\ late = 0
  /\ last = Call("none", Ok)
  /\ reader = NoReader

\* a schema, data or dates call is made on the open writer
BuilderCall == w_state = "open" /\ (saves = <<>> \/ late < MaxLate)

\* TSFWriter::new(path): notes whether the path exists, opens it for append or creates it
New ==
  /\ w_state = "none"
  /\ \E txid \in Uuids :
       segment_data' = start_tx(SegmentData_new, txid)
  /\ file_exists' = fs_exists
  /\ fs_exists' = TRUE
  /\ fs_bytes' = fs_bytes
  /\ cleanup' = InitialCleanup
  /\ w_state' = "open"
  /\ last' = Call("new", Ok)
  /\ UNCHANGED <<saves, late, reader>>

\* TSFWriter::add_column_header
AddColumnHeader ==
  /\ BuilderCall
  /\ get_column_count(segment_data) < MaxCols
  /\ \E c \in ColumnInputs, ts_column \in BOOLEAN :
       LET r == add_column_header(segment_data, SegmentColumnHeader_new(c[1], c[2], c[3], c[4]), ts_column)
       IN  /\ segment_data' = r.segment
           /\ last' = Call("add_column_header", r.res)
  /\ late' = (IF saves = <<>> THEN 0 ELSE late + 1)
  /\ UNCHANGED <<fs_exists, fs_bytes, w_state, file_exists, cleanup, saves, reader>>

\* TSFWriter::add_column_data::<T>: an empty Vec is refused first, then the Vec is
\* lifted to T's variant and handed to the segment
Writer_add_column_data(seg, T, column, encoding, compression) ==
  IF column = <<>>
  THEN [res |-> "Column data empty", segment |-> seg]
  ELSE add_column_data(seg, SegmentColumnData(EnumColumnData(T, column), encoding, compression, None))

AddColumnData ==
  /\ BuilderCall
  /\ \E T \in CreatorTypes, column \in DataVecs :
       LET r == Writer_add_column_data(segment_data, T, column, "None", "None")
       IN  /\ segment_data' = r.segment
           /\ last' = Call("add_column_data", r.res)
  /\ late' = (IF saves = <<>> THEN 0 ELSE late + 1)
  /\ UNCHANGED <<fs_exists, fs_bytes, w_state, file_exists, cleanup, saves, reader>>

\* TSFWriter::update_segment_dates
UpdateSegmentDates ==
  /\ BuilderCall
  /\ \E d \in DateRanges :
       segment_data' = update_header_dates(segment_data, d[1], d[2])
  /\ last' = Call("update_segment_dates", Ok)
  /\ late' = (IF saves = <<>> THEN 0 ELSE late + 1)
  /\ UNCHANGED <<fs_exists, fs_bytes, w_state, file_exists, cleanup, saves, reader>>

\* TSFWriter::try_save
TrySave ==
  /\ w_state = "open"
  /\ Len(saves) < MaxSaves
  /\ LET r == save(FileHeader_new, segment_data)
     IN  /\ fs_bytes' = fs_bytes \o r.bytes
         /\ segment_data' = r.segment
         /\ cleanup' = LatchAfterSave(r.res)
         /\ saves' = Append(saves, r.res)
         /\ last' = Call("try_save", r.res)
  /\ UNCHANGED <<fs_exists, w_state, file_exists, late, reader>>

\* Drop for TSFWriter
Drop ==
  /\ w_state = "open"
  /\ w_state' = "dropped"
  /\ IF DropRemoves(cleanup, file_exists)
     THEN fs_exists' = FALSE /\ fs_bytes' = <<>>
     ELSE UNCHANGED <<fs_exists, fs_bytes>>
  /\ last' = Call("drop", Ok)
  /\ UNCHANGED <<file_exists, cleanup, segment_data, saves, late, reader>>

Next ==
  \/ New
  \/ AddColumnHeader
  \/ AddColumnData
  \/ UpdateSegmentDates
  \/ TrySave
  \/ Drop

Spec == Init /\ [][Next]_vars

-----------------------------------------------------------------------------
(* The segment builder on its own: SegmentData::add_column_header and            *)
(* SegmentData::add_column_data called directly, with vectors of every variant. *)

\* a vector of n elements of the variant
VecOf(variant, n) == [i \in 1..n |-> IF variant = "Boolean" THEN (i % 2 = 1) ELSE i]

\* the SegmentColumnData values handed to add_column_data
SegDataInputs ==
  { SegmentColumnData(EnumColumnData(variant, VecOf(variant, n)), "None", "None", None) :
      variant \in EnumDataType, n \in 0..MaxRows }

\* (name, type, encoding, compression) of the descriptors handed to add_column_header
SegColumnInputs ==
  { <<Name_t, "Int32", "None", "None">>,
    <<Name_ab, "Int8", "Delta", "ZStd">> }

InitBuilder ==
  /\ fs_exists = FALSE
  /\ fs_bytes = <<>>
  /\ w_state = "none"
  /\ file_exists = FALSE
  /\ cleanup = FALSE
  /\ segment_data = SegmentData_new
  /\ saves = <<>>
  /\ late = 0
  /\ last = Call("none", Ok)
  /\ reader = NoReader

\* SegmentData::add_column_header
SegAddColumnHeader ==
  /\ get_column_count(segment_data) < MaxCols
  /\ \E c \in SegColumnInputs, ts_column \in BOOLEAN :
       LET column_header == SegmentColumnHeader_new(c[1], c[2], c[3], c[4])
           r == add_column_header(segment_data, column_header, ts_column)
       IN  /\ segment_data' = r.segment
           /\ last' = CallWith("add_column_header", <<column_header, ts_column>>, r.res)
  /\ UNCHANGED <<fs_exists, fs_bytes, w_state, file_exists, cleanup, saves, late, reader>>

\* SegmentData::add_column_data
SegAddColumnData ==
  /\ \E column_data \in SegDataInputs :
       LET r == add_column_data(segment_data, column_data)
       IN  /\ segment_data' = r.segment
           /\ last' = CallWith("add_column_data", column_data, r.res)
  /\ UNCHANGED <<fs_exists, fs_bytes, w_state, file_exists, cleanup, saves, late, reader>>

NextBuilder ==
  \/ SegAddColumnHeader
  \/ SegAddColumnData

SpecBuilder == InitBuilder /\ [][NextBuilder]_vars

-----------------------------------------------------------------------------
(* The reader on its own: TSFReader::new, read_all and stream_rows on a file  *)
(* that is already on disk, well formed or not.                               *)

\* the element types of the columns in the files read
FileColumnTypes == {"Int8", "Int32", "DateTime32", "UInt8"}

\* the column types of a file, in order
FileColumnLists == UNION { [1..k -> FileColumnTypes] : k \in 0..MaxCols }

\* (encoding, compression) recorded in the first descriptor of a file
FileCodecs == { <<"None", "None">>, <<"Delta", "None">>, <<"None", "ZStd">> }

\* bytes that may follow the last column's elements inside its slab
FileTails == { <<>>, <<9>> }

\* how a file departs from what FileHeader::write_header and write_to_file leave:
\* not at all, another magic number, another version, cut inside the preamble,
\* or cut one byte before its end
FileDamages == {"none", "magic", "version", "short", "clipped"}

\* the bytes of a file: the preamble as FileHeader::write_header lays it out, the
\* segment header as SegmentDataHeader::write_header lays it out over descriptors
\* whose column_size is the length of their slab, then the slabs; every column
\* holds n elements, and row_count is what the header says
FileBytes(types, n, row_count, codec, tail, damage) ==
  LET k == Len(types)
      slabs == [i \in 1..k |->
                  DataBuffer(EnumColumnData(types[i], VecOf(types[i], n)))
                    \o (IF i = k THEN tail ELSE <<>>)]
      column_headers ==
        [i \in 1..k |->
           [SegmentColumnHeader_new(IF i = 1 THEN Name_t ELSE Name_ab, types[i],
                                    IF i = 1 THEN codec[1] ELSE "None",
                                    IF i = 1 THEN codec[2] ELSE "None")
              EXCEPT !.column_size = Len(slabs[i])]]
      h0 == [SegmentDataHeader_new EXCEPT
               !.uuid_txid = Some([i \in 1..16 |-> 170]),
               !.date_start = Some(1), !.date_end = Some(2),
               !.row_count = row_count, !.column_count = k, !.ts_column = Some(0),
               !.column_headers = column_headers,
               !.column_header_size = HeadersByteSize(column_headers)]
      h == [h0 EXCEPT !.next_offset = Some(calculate_header_size(h0) + Len(Flatten(slabs)))]
      fh == [magic_number |-> IF damage = "magic" THEN TSFD_MAGIC_NUMBER + 1 ELSE TSFD_MAGIC_NUMBER,
             version |-> IF damage = "version" THEN TSFD_VERSION + 1 ELSE TSFD_VERSION]
      whole == FileHeader_write_header(fh) \o Header_write_header(h).bytes \o Flatten(slabs)
  IN  CASE damage = "short" -> SubSeq(whole, 1, 5)
        [] damage = "clipped" -> SubSeq(whole, 1, Len(whole) - 1)
        [] OTHER -> whole

\* the codes up to MaxTypeCode that from_u16 has no arm for
UnknownTypeCodes == { code \in 0..MaxTypeCode : ~IsSome(from_u16(code)) }

\* the 0-based file offset of the column_type field of descriptor k of a well-formed
\* file: the preamble, the fixed part, the descriptors before k, then k's
\* column_name_length field and its name
TypeCodeOffset(bytes, k) ==
  LET column_headers == read_segment_header(SegmentDataHeader_new, bytes, 6).header.column_headers
  IN  6 + FixedHeaderBytes + HeadersByteSize(SubSeq(column_headers, 1, k - 1))
        + 2 + column_headers[k].column_name_length

\* the file with the column_type field of descriptor k holding code
WithTypeCode(bytes, k, code) ==
  LET at == TypeCodeOffset(bytes, k)
  IN  SubSeq(bytes, 1, at) \o LEBytes(code, 2) \o SubSeq(bytes, at + 3, Len(bytes))

\* well-formed files but for one descriptor, which carries a code from_u16 does not know
UnknownTypeFiles ==
  UNION { { WithTypeCode(FileBytes(types, n, n, <<"None", "None">>, <<>>, "none"), k, code) :
              n \in 1..MaxRows, k \in 1..Len(types), code \in UnknownTypeCodes } :
          types \in FileColumnLists }

\* well-formed files but for the name of the first descriptor, whose single byte is
\* 0xC8, no UTF-8 on its own
BadNameFiles ==
  { LET bytes == FileBytes(types, n, n, <<"None", "None">>, <<>>, "none")
        at == 6 + FixedHeaderBytes + 2
    IN  SubSeq(bytes, 1, at) \o <<200>> \o SubSeq(bytes, at + 2, Len(bytes)) :
      types \in FileColumnLists \ {<<>>}, n \in 1..MaxRows }

\* files that two successful try_save calls of one writer leave: the preamble and
\* a segment, twice
TwoSegmentFiles ==
  { FileBytes(first, n1, n1, <<"None", "None">>, <<>>, "none")
      \o FileBytes(second, n2, n2, <<"None", "None">>, <<>>, "none") :
      first \in FileColumnLists, second \in FileColumnLists,
      n1 \in 1..MaxRows, n2 \in 1..MaxRows }

\* the files a reader is opened on
ReaderFiles ==
  { FileBytes(types, n, row_count, codec, tail, damage) :
      types \in FileColumnLists, n \in 1..MaxRows, row_count \in 0..MaxRows,
      codec \in FileCodecs, tail \in FileTails, damage \in FileDamages }
    \cup UnknownTypeFiles
    \cup TwoSegmentFiles
    \cup BadNameFiles

InitReader ==
  /\ fs_exists = TRUE
  /\ fs_bytes \in ReaderFiles
  /\ w_state = "none"
  /\ file_exists = FALSE
  /\ cleanup = FALSE
  /\ segment_data = SegmentData_new
  /\ saves = <<>>
  /\ late = 0
  /\ last = Call("none", Ok)
  /\ reader = NoReader

\* TSFReader::new on the file
ReaderNew ==
  /\ reader.state = "none"
  /\ fs_exists
  /\ reader' = OpenReader
  /\ last' = Call("reader_new", Ok)
  /\ UNCHANGED <<fs_exists, fs_bytes, w_state, file_exists, cleanup, segment_data, saves, late>>

\* TSFReader::read_all, once on a reader
ReadAll ==
  /\ reader.state = "open"
  /\ reader' = read_all(reader, fs_bytes)
  /\ last' = Call("read_all", reader'.res)
  /\ UNCHANGED <<fs_exists, fs_bytes, w_state, file_exists, cleanup, segment_data, saves, late>>

\* TSFReader::stream_rows, before or after read_all; the stream's items are kept
StreamRows ==
  /\ reader.state \in {"open", "read"}
  /\ reader' = [reader EXCEPT !.stream = stream_rows(reader.segment_data),
                              !.state = IF @ = "read" THEN "streamed" ELSE "streamed_unread"]
  /\ last' = Call("stream_rows", Ok)
  /\ UNCHANGED <<fs_exists, fs_bytes, w_state, file_exists, cleanup, segment_data, saves, late>>

\* a reader call made after read_all has returned
FurtherCall == reader.state \in {"read", "streamed"}

\* TSFReader::read_all, called once more
ReadAllAgain ==
  /\ FurtherCall
  /\ reader' = [read_all(reader, fs_bytes) EXCEPT !.state = "reread"]
  /\ last' = Call("read_all", reader'.res)
  /\ UNCHANGED <<fs_exists, fs_bytes, w_state, file_exists, cleanup, segment_data, saves, late>>

\* TSFReader::read_header, called after read_all
ReadHeaderAgain ==
  /\ FurtherCall
  /\ reader' = [read_header(reader, fs_bytes) EXCEPT !.state = "reread"]
  /\ last' = Call("read_header", reader'.res)
  /\ UNCHANGED <<fs_exists, fs_bytes, w_state, file_exists, cleanup, segment_data, saves, late>>

\* TSFReader::read_data, called after read_all
ReadDataAgain ==
  /\ FurtherCall
  /\ reader' = [read_data(reader, fs_bytes) EXCEPT !.state = "reread"]
  /\ last' = Call("read_data", reader'.res)
  /\ UNCHANGED <<fs_exists, fs_bytes, w_state, file_exists, cleanup, segment_data, saves, late>>

NextReader ==
  \/ ReaderNew
  \/ ReadAll
  \/ StreamRows
  \/ ReadAllAgain
  \/ ReadHeaderAgain
  \/ ReadDataAgain

SpecReader == InitReader /\ [][NextReader]_vars

-----------------------------------------------------------------------------
(* async_tsf_reader.rs and the async_* segment modules: AsyncTSFReader on the *)
(* same files.  Its segment records where its data starts (data_pos), and     *)
(* every column is read at a file_pos computed from the header, after a seek  *)
(* when the file is not already there.                                        *)

\* SegmentData::new: data_pos
Async_data_pos == 0

\* SegmentColumnHeader::read_from_buffer of async_data_header.rs: as the blocking
\* one, but for the Err of a name that is no UTF-8
Async_read_from_buffer(buf, pos) ==
  IF read_from_buffer(buf, pos).res = "invalid utf-8 sequence"
  THEN [read_from_buffer(buf, pos) EXCEPT !.res = "Failed to decode column name"]
  ELSE read_from_buffer(buf, pos)

RECURSIVE Async_ReadColumnHeaders(_, _, _, _)
Async_ReadColumnHeaders(buf, pos, remaining, acc) ==
  IF remaining = 0 THEN [res |-> Ok, headers |-> acc]
  ELSE LET r == Async_read_from_buffer(buf, pos)
       IN  IF r.res # Ok THEN [res |-> r.res, headers |-> acc]
           ELSE Async_ReadColumnHeaders(buf, r.pos, remaining - 1, Append(acc, Unwrap(r.header)))

\* SegmentDataHeader::read_segment_header of async_data_header.rs: [res, header, pos]
Async_read_segment_header(h, bytes, pos) ==
  IF Len(bytes) - pos < FixedHeaderBytes
  THEN [res |-> "UnexpectedEof", header |-> h, pos |-> Len(bytes)]
  ELSE
  LET b == Slice(bytes, pos + 1, FixedHeaderBytes)
      h1 == [h EXCEPT !.tombstone = (b[1] # 0),
                      !.next_offset = Some(ULEValue(Slice(b, 2, 4))),
                      !.uuid_txid = Some(Slice(b, 6, 16)),
                      !.date_start = Some(SLEValue(Slice(b, 22, 8))),
                      !.date_end = Some(SLEValue(Slice(b, 30, 8))),
                      !.row_count = ULEValue(Slice(b, 38, 4)),
                      !.column_count = ULEValue(Slice(b, 42, 2)),
                      !.ts_column = Some(ULEValue(Slice(b, 44, 2))),
                      !.column_header_size = ULEValue(Slice(b, 46, 4))]
      p1 == pos + FixedHeaderBytes
      header_size == h1.column_header_size + 8
  IN
  IF Len(bytes) - p1 - 8 < h1.column_header_size
  THEN [res |-> "UnexpectedEof", header |-> h1, pos |-> Len(bytes)]
  ELSE
  LET dynamic_buffer == Slice(bytes, p1 + 1, header_size)
      cols == Async_ReadColumnHeaders(dynamic_buffer, 0, h1.column_count, <<>>)
      h2 == [h1 EXCEPT !.column_headers = cols.headers]
      p2 == p1 + header_size
  IN
  IF cols.res # Ok
  THEN [res |-> cols.res, header |-> h2, pos |-> p2]
  ELSE [res |-> Ok,
        header |-> [h2 EXCEPT !.segment_check = Some(Slice(dynamic_buffer, header_size - 8 + 1, 8))],
        pos |-> p2]

\* SegmentDataHeader::calculate_header_size of async_data_header.rs
Async_calculate_header_size(h) == FixedSize + h.column_header_size

\* get_column_data_pos counting from the start of the segment, without the preamble
get_column_data_pos_NoPreamble(header) ==
  Async_calculate_header_size(header) + Async_data_pos

\* SegmentData::get_column_data_pos: file header + size of header + data position
get_column_data_pos(header) ==
  6 + Async_calculate_header_size(header) + Async_data_pos

\* SegmentData::read_segment_data of async_segment_data.rs, a recursion over the
\* descriptors: each column is read at column_data_pos, its file_pos, after a seek
\* when the file stands elsewhere (pos); seeks collects <<position, file_pos>> of
\* every such seek; [res, data, pos, seeks]
RECURSIVE Async_ReadColumns(_, _, _, _, _, _)
Async_ReadColumns(column_headers, bytes, pos, column_data_pos, acc, seeks) ==
  IF column_headers = <<>> THEN [res |-> Ok, data |-> acc, pos |-> pos, seeks |-> seeks]
  ELSE LET header == column_headers[1]
           column_data == SegmentColumnData_new(header.column_type, header.column_enc, header.column_comp)
           sought == IF pos # column_data_pos THEN Append(seeks, <<pos, column_data_pos>>) ELSE seeks
       IN  IF Len(bytes) - column_data_pos < header.column_size
           THEN [res |-> "UnexpectedEof", data |-> acc, pos |-> Len(bytes), seeks |-> sought]
           ELSE Async_ReadColumns(
                  Tail(column_headers), bytes,
                  column_data_pos + header.column_size,
                  column_data_pos + header.column_size,
                  Append(acc, convert_buffer_into_data(
                                [column_data EXCEPT !.buffer =
                                   Some(Slice(bytes, column_data_pos + 1, header.column_size))]).column),
                  sought)

\* the segment once read_segment_data has returned d
Async_AfterColumns(header, d) ==
  [res |-> d.res, segment |-> [data_header |-> header, data |-> d.data], pos |-> d.pos,
   seeks |-> d.seeks]

\* read_segment_from_file once read_segment_header has returned h
Async_AfterSegmentHeader(seg, h, bytes) ==
  IF h.res # Ok
  THEN [res |-> h.res, segment |-> [seg EXCEPT !.data_header = h.header], pos |-> h.pos,
        seeks |-> <<>>]
  ELSE Async_AfterColumns(
         h.header,
         Async_ReadColumns(h.header.column_headers, bytes, h.pos,
                           get_column_data_pos(h.header), <<>>, <<>>))

\* SegmentData::read_segment_from_file of async_segment_data.rs: [res, segment, pos, seeks]
Async_read_segment_from_file(seg, bytes, pos) ==
  Async_AfterSegmentHeader(seg, Async_read_segment_header(seg.data_header, bytes, pos), bytes)

\* the reader once read_segment_from_file has returned sd: [reader, seeks]
Async_AfterSegment(r, sd) ==
  [reader |-> [r EXCEPT !.pos = sd.pos, !.segment_data = sd.segment, !.res = sd.res],
   seeks |-> sd.seeks]

\* AsyncTSFReader::read_header: the preamble is read and verified as TSFReader does
Async_read_header(r, bytes) ==
  AfterFileHeader(r, FileHeader_read_header(r.file_header, bytes, r.pos))

\* AsyncTSFReader::read_data: [reader, seeks]
Async_read_data(r, bytes) ==
  Async_AfterSegment(r, Async_read_segment_from_file(r.segment_data, bytes, r.pos))

\* the rest of read_all once read_header has left the reader as r1
Async_AfterReadHeader(r1, bytes) ==
  IF r1.res # Ok THEN [reader |-> r1, seeks |-> <<>>] ELSE Async_read_data(r1, bytes)

\* AsyncTSFReader::read_all: [reader, seeks]
Async_read_all(r, bytes) == Async_AfterReadHeader(Async_read_header(r, bytes), bytes)

\* AsyncTSFReader::stream_rows: the same loops and arms as TSFReader::stream_rows
Async_stream_rows(seg) == stream_rows(seg)

\* AsyncTSFReader::new on the file
AsyncReaderNew ==
  /\ reader.state = "none"
  /\ fs_exists
  /\ reader' = [NoReader EXCEPT !.state = "aopen"]
  /\ last' = Call("reader_new", Ok)
  /\ UNCHANGED <<fs_exists, fs_bytes, w_state, file_exists, cleanup, segment_data, saves, late>>

\* AsyncTSFReader::read_all, once on a reader; arg records the seeks it made
AsyncReadAll ==
  /\ reader.state = "aopen"
  /\ LET a == Async_read_all(reader, fs_bytes)
     IN  /\ reader' = [a.reader EXCEPT !.state = "aread"]
         /\ last' = CallWith("read_all", a.seeks, a.reader.res)
  /\ UNCHANGED <<fs_exists, fs_bytes, w_state, file_exists, cleanup, segment_data, saves, late>>

\* AsyncTSFReader::stream_rows after read_all
AsyncStreamRows ==
  /\ reader.state = "aread"
  /\ reader' = [reader EXCEPT !.stream = Async_stream_rows(reader.segment_data),
                              !.state = "astreamed"]
  /\ last' = Call("stream_rows", Ok)
  /\ UNCHANGED <<fs_exists, fs_bytes, w_state, file_exists, cleanup, segment_data, saves, late>>

NextAsync ==
  \/ AsyncReaderNew
  \/ AsyncReadAll
  \/ AsyncStreamRows

SpecAsync == InitReader /\ [][NextAsync]_vars

-----------------------------------------------------------------------------
(* The segment header on its own: a SegmentDataHeader built as a struct literal, *)
(* completed through its setters and written with write_header to an empty file. *)

\* the struct literals a header starts from: every Option field set or not, no
\* descriptor or one, column_header_size right or not
HeaderInputs ==
  { [SegmentDataHeader_new EXCEPT
       !.tombstone = tombstone,
       !.next_offset = next_offset,
       !.uuid_txid = uuid_txid,
       !.date_start = date_start,
       !.date_end = date_end,
       !.row_count = 10,
       !.ts_column = ts_column,
       !.column_count = Len(column_headers),
       !.column_headers = column_headers,
       !.column_header_size = column_header_size] :
      tombstone \in BOOLEAN,
      next_offset \in {None, Some(123)},
      uuid_txid \in {None} \cup { Some(u) : u \in Uuids },
      date_start \in {None, Some(-1)},
      date_end \in {None, Some(2)},
      ts_column \in {None, Some(3)},
      column_headers \in {<<>>, <<SegmentColumnHeader_new(Name_t, "Int32", "None", "None")>>},
      column_header_size \in {0, 7} }

InitHeader ==
  /\ fs_exists = TRUE
  /\ fs_bytes = <<>>
  /\ w_state = "none"
  /\ file_exists = FALSE
  /\ cleanup = FALSE
  /\ \E h \in HeaderInputs : segment_data = [data_header |-> h, data |-> <<>>]
  /\ saves = <<>>
  /\ late = 0
  /\ last = Call("none", Ok)
  /\ reader = NoReader

\* SegmentDataHeader::add_column_header
HdrAddColumnHeader ==
  /\ saves = <<>>
  /\ Len(segment_data.data_header.column_headers) < MaxCols
  /\ \E c \in SegColumnInputs :
       segment_data' = [segment_data EXCEPT !.data_header =
         Header_add_column_header(@, SegmentColumnHeader_new(c[1], c[2], c[3], c[4])).header]
  /\ last' = Call("add_column_header", Ok)
  /\ UNCHANGED <<fs_exists, fs_bytes, w_state, file_exists, cleanup, saves, late, reader>>

\* SegmentData::add_column_header on the segment that holds the header
HdrSegAddColumnHeader ==
  /\ saves = <<>>
  /\ Len(segment_data.data_header.column_headers) < MaxCols
  /\ \E c \in SegColumnInputs, ts_column \in BOOLEAN :
       LET column_header == SegmentColumnHeader_new(c[1], c[2], c[3], c[4])
           r == add_column_header(segment_data, column_header, ts_column)
       IN  /\ segment_data' = r.segment
           /\ last' = CallWith("seg_add_column_header", <<column_header, ts_column>>, r.res)
  /\ UNCHANGED <<fs_exists, fs_bytes, w_state, file_exists, cleanup, saves, late, reader>>

\* SegmentDataHeader::set_ts_column
HdrSetTsColumn ==
  /\ saves = <<>>
  /\ \E ts_column_index \in 0..MaxCols :
       LET r == set_ts_column(segment_data.data_header, ts_column_index)
       IN  /\ segment_data' = [segment_data EXCEPT !.data_header = r.header]
           /\ last' = CallWith("set_ts_column", ts_column_index, r.res)
  /\ UNCHANGED <<fs_exists, fs_bytes, w_state, file_exists, cleanup, saves, late, reader>>

\* SegmentDataHeader::set_date_start
HdrSetDateStart ==
  /\ saves = <<>>
  /\ \E d \in DateRanges :
       segment_data' = [segment_data EXCEPT !.data_header.date_start = Some(d[1])]
  /\ last' = Call("set_date_start", Ok)
  /\ UNCHANGED <<fs_exists, fs_bytes, w_state, file_exists, cleanup, saves, late, reader>>

\* SegmentDataHeader::set_date_end
HdrSetDateEnd ==
  /\ saves = <<>>
  /\ \E d \in DateRanges :
       segment_data' = [segment_data EXCEPT !.data_header.date_end = Some(d[2])]
  /\ last' = Call("set_date_end", Ok)
  /\ UNCHANGED <<fs_exists, fs_bytes, w_state, file_exists, cleanup, saves, late, reader>>

\* SegmentDataHeader::write_header on the file; arg records the bytes it appended
HdrWriteHeader ==
  /\ Len(saves) < MaxSaves
  /\ LET r == Header_write_header(segment_data.data_header)
     IN  /\ fs_bytes' = fs_bytes \o r.bytes
         /\ segment_data' = [segment_data EXCEPT !.data_header = r.header]
         /\ saves' = Append(saves, r.res)
         /\ last' = CallWith("write_header", r.bytes, r.res)
  /\ UNCHANGED <<fs_exists, w_state, file_exists, cleanup, late, reader>>

NextHeader ==
  \/ HdrAddColumnHeader
  \/ HdrSegAddColumnHeader
  \/ HdrSetTsColumn
  \/ HdrSetDateStart
  \/ HdrSetDateEnd
  \/ HdrWriteHeader

SpecHeader == InitHeader /\ [][NextHeader]_vars

-----------------------------------------------------------------------------
(* The column codec on its own: a SegmentColumnData holding a vector (as the  *)
(* new_*_vec constructors build it) or a buffer (as read_file_into_buffer     *)
(* leaves it), then convert_data_into_buffer and convert_buffer_into_data.    *)

\* element values of each variant: the ends of its range where the model's integers
\* reach them, and values between (floats stand as their bit patterns; 64-bit and
\* unsigned 32-bit values stay within the model's integers)
CodecValues(variant) ==
  CASE variant = "Int8" -> {-128, -4, -3, -1, 0, 1, 2, 127}
    [] variant = "Int16" -> {-32768, -1, 0, 258, 32767}
    [] variant \in {"Int32", "DateTime32", "Int64", "DateTime64"}
         -> {-2147483647 - 1, -1, 0, 1710555318, 2147483647}
    [] variant = "UInt8" -> {0, 1, 255}
    [] variant = "UInt16" -> {0, 258, 65535}
    [] variant \in {"UInt32", "UInt64"} -> {0, 1710555318, 2147483647}
    [] variant \in {"Float32", "Float64"} -> {0, 1065353216, 2143289344}
    [] variant = "Boolean" -> {TRUE, FALSE}

\* the vectors the constructors are given: every one of up to MaxRows sampled
\* elements, and the Int8 vector of test_prepare_and_write_int8_data
CodecVecs(variant) ==
  UNION { [1..n -> CodecValues(variant)] : n \in 0..MaxRows }
    \cup (IF variant = "Int8" THEN { <<1, 2, -3, -4>> } ELSE {})

\* the buffers read_file_into_buffer may leave
CodecBuffers == { <<>>, <<1>>, <<2, 0>>, <<0, 128, 255>>, <<1, 2, 253, 252>>, <<255, 255, 255, 255, 7>> }

\* the columns a scenario starts from
CodecColumns ==
  UNION { { SegmentColumnData(EnumColumnData(variant, vec), "None", "None", None) :
              vec \in CodecVecs(variant) }
          \cup { SegmentColumnData(from_enum_data_type(variant), "None", "None", Some(buffer)) :
                   buffer \in CodecBuffers } :
          variant \in EnumDataType }

InitCodec ==
  /\ fs_exists = FALSE
  /\ fs_bytes = <<>>
  /\ w_state = "none"
  /\ file_exists = FALSE
  /\ cleanup = FALSE
  /\ \E column \in CodecColumns :
       segment_data = [data_header |-> SegmentDataHeader_new, data |-> <<column>>]
  /\ saves = <<>>
  /\ late = 0
  /\ last = Call("none", Ok)
  /\ reader = NoReader

\* SegmentColumnData::convert_data_into_buffer; arg records the number of bytes it returns
CodecConvertData ==
  /\ LET column == convert_data_into_buffer(segment_data.data[1])
     IN  /\ segment_data' = [segment_data EXCEPT !.data = <<column>>]
         /\ last' = CallWith("convert_data_into_buffer", Len(Unwrap(column.buffer)), Ok)
  /\ UNCHANGED <<fs_exists, fs_bytes, w_state, file_exists, cleanup, saves, late, reader>>

\* SegmentColumnData::convert_buffer_into_data
CodecConvertBuffer ==
  /\ LET r == convert_buffer_into_data(segment_data.data[1])
     IN  /\ segment_data' = [segment_data EXCEPT !.data = <<r.column>>]
         /\ last' = Call("convert_buffer_into_data", r.res)
  /\ UNCHANGED <<fs_exists, fs_bytes, w_state, file_exists, cleanup, saves, late, reader>>

NextCodec ==
  \/ CodecConvertData
  \/ CodecConvertBuffer

SpecCodec == InitCodec /\ [][NextCodec]_vars

-----------------------------------------------------------------------------
(* Properties *)

\* the writer's segment header
Hdr == segment_data.data_header

SaveFailed(i) == saves[i] # Ok
LastSaveFailed == saves # <<>> /\ saves[Len(saves)] # Ok
LastSaveOk == saves # <<>> /\ saves[Len(saves)] = Ok

\* the segment a reader holds shows what the writer's segment holds
SameSegment(read, written) ==
  /\ read.data_header.row_count = written.data_header.row_count
  /\ read.data_header.column_count = written.data_header.column_count
  /\ Len(read.data_header.column_headers) = Len(written.data_header.column_headers)
  /\ \A i \in 1..Len(written.data_header.column_headers) :
       LET rh == read.data_header.column_headers[i]
           wh == written.data_header.column_headers[i]
       IN  /\ rh.column_name = wh.column_name
           /\ rh.column_type = wh.column_type
           /\ rh.column_enc = wh.column_enc
           /\ rh.column_comp = wh.column_comp
  /\ Len(read.data) = Len(written.data)
  /\ \A i \in 1..Len(written.data) : read.data[i].data = written.data[i].data

\* C1: a segment with data for each of its columns, saved by one successful try_save
\* on a file the writer created, is read back by read_all with the same row count,
\* column count, names, types, codec tags and column contents (variant and elements).
C1_SegmentRoundTrip ==
  ( /\ w_state # "none" /\ ~file_exists /\ fs_exists
    /\ saves = <<Ok>> /\ late = 0
    /\ Len(segment_data.data) = Hdr.column_count )
  => LET r == read_all(OpenReader, fs_bytes)
     IN  r.res = Ok /\ SameSegment(r.segment_data, segment_data)

\* C2 as stated: the writer created the file and some try_save returned an error;
\* once the writer is dropped the file is gone.
C2_AnyFailedSaveRemoves ==
  ( w_state = "dropped" /\ ~file_exists /\ \E i \in 1..Len(saves) : SaveFailed(i) )
  => ~fs_exists

\* C2 amended: the writer created the file and its last try_save returned an error;
\* once the writer is dropped the file is gone.
C2_LastFailedSaveRemoves ==
  ( w_state = "dropped" /\ ~file_exists /\ LastSaveFailed ) => ~fs_exists

C2_Witness ==
  w_state = "dropped" /\ ~file_exists /\ LastSaveFailed /\ ~fs_exists

\* C3: a file that existed before the writer opened it exists at every moment of
\* the writer's life and after its drop, whatever calls were made.
C3_PreExistingNeverDeleted ==
  ( w_state # "none" /\ file_exists ) => fs_exists

C3_Witness ==
  w_state = "dropped" /\ file_exists /\ fs_exists /\ cleanup /\ LastSaveFailed

\* C4: a try_save that fails on a pre-existing file leaves the file's bytes as they were.
C4_FailedSaveLeavesBytes ==
  [][ ( saves' # saves /\ file_exists /\ last'.res # Ok ) => fs_bytes' = fs_bytes ]_vars

\* C5: a writer that created its file and is dropped with no successful try_save
\* (none at all included) leaves no file.
C5_NoSuccessfulSaveNoFile ==
  ( w_state = "dropped" /\ ~file_exists /\ \A i \in 1..Len(saves) : SaveFailed(i) )
  => ~fs_exists

\* C6: after a successful try_save there is a slab for every declared column and
\* each slab holds row_count rows.
C6_SlabForEveryColumn ==
  ( last.op = "try_save" /\ last.res = Ok )
  => /\ Len(segment_data.data) = Hdr.column_count
     /\ \A i \in 1..Len(segment_data.data) :
          Len(segment_data.data[i].data.vec) = Hdr.row_count

TimestampTypes == {"Int32", "Int64", "DateTime32", "DateTime64"}

\* C7: after a successful try_save the timestamp index is set, below column_count,
\* and names a column of type Int32, Int64, DateTime32 or DateTime64.
C7_TimestampColumnTyped ==
  ( last.op = "try_save" /\ last.res = Ok )
  => /\ IsSome(Hdr.ts_column)
     /\ Unwrap(Hdr.ts_column) < Hdr.column_count
     /\ Hdr.column_headers[Unwrap(Hdr.ts_column) + 1].column_type \in TimestampTypes

\* the values of the timestamp column, when it has its data
TsValues ==
  LET k == Unwrap(Hdr.ts_column) + 1
  IN  { segment_data.data[k].data.vec[i] : i \in 1..Len(segment_data.data[k].data.vec) }

\* C8: after a successful try_save of a segment whose timestamp column has its data,
\* date_start <= date_end and both lie between the least and the greatest timestamp.
C8_DatesWithinTimestamps ==
  ( /\ last.op = "try_save" /\ last.res = Ok
    /\ Unwrap(Hdr.ts_column) + 1 <= Len(segment_data.data) )
  => /\ Unwrap(Hdr.date_start) <= Unwrap(Hdr.date_end)
     /\ \E lo \in TsValues : lo <= Unwrap(Hdr.date_start)
     /\ \E hi \in TsValues : Unwrap(Hdr.date_end) <= hi

\* C9: every accepted data column has row_count elements; row_count changes only
\* when the first data column is accepted, to that column's length.
C9_RowCountConsistent ==
  /\ [](\A i \in 1..Len(segment_data.data) : Len(segment_data.data[i].data.vec) = Hdr.row_count)
  /\ [][ Hdr'.row_count # Hdr.row_count
         => /\ segment_data.data = <<>>
            /\ Len(segment_data'.data) = 1
            /\ Hdr'.row_count = Len(segment_data'.data[1].data.vec) ]_vars

\* two data columns accepted, the second matching the row count the first fixed
C9_Witness ==
  /\ Len(segment_data.data) = 2
  /\ Hdr.row_count = 2
  /\ last.op = "add_column_data" /\ last.res = Ok

\* C10: add_data returns ExcessData when every declared column has its data, else
\* EmptyColumn for a vector of length 0, else RowCountMismatch for a length other
\* than the established row_count; a call that fails changes neither the columns
\* nor row_count.
C10_AddDataErrors ==
  [][ last'.op = "add_column_data"
      => LET n == Len(last'.arg.data.vec)
             full == Len(segment_data.data) = Hdr.column_count
         IN  /\ full => last'.res = ExcessData
             /\ (~full /\ n = 0) => last'.res = EmptyColumn
             /\ (~full /\ n # 0 /\ Hdr.row_count # 0 /\ n # Hdr.row_count)
                  => last'.res = RowCountMismatch
             /\ last'.res # Ok
                  => /\ segment_data'.data = segment_data.data
                     /\ Hdr'.row_count = Hdr.row_count ]_vars

\* C11: a non-empty vector of any variant, offered while a declared column still
\* lacks its data and no other row count is established, is accepted and its length
\* becomes the row count.
C11_EveryVariantAccepted ==
  [][ ( /\ last'.op = "add_column_data"
        /\ Len(segment_data.data) < Hdr.column_count
        /\ Len(last'.arg.data.vec) # 0
        /\ Hdr.row_count \in {0, Len(last'.arg.data.vec)} )
      => /\ last'.res = Ok
         /\ Hdr'.row_count = Len(last'.arg.data.vec) ]_vars

\* the reader has run read_all on the file, whose bytes are still fs_bytes
HasRead == reader.state \in {"read", "streamed"}

\* the file starts with the four magic bytes 44 46 53 54 / with version 1 after them
MagicOnDisk == Len(fs_bytes) >= 4 /\ SubSeq(fs_bytes, 1, 4) = <<68, 70, 83, 84>>
VersionOnDisk == Len(fs_bytes) >= 6 /\ SubSeq(fs_bytes, 5, 6) = <<1, 0>>

\* C12: read_all on a file with other magic bytes fails with the error that stands
\* for BadMagic, and on a file with the magic bytes and another version it fails
\* with an error other than that one.
C12_MagicAndVersionErrors ==
  /\ ( HasRead /\ Len(fs_bytes) >= 6 /\ ~MagicOnDisk ) => reader.res = VerificationFailed
  /\ ( HasRead /\ Len(fs_bytes) >= 6 /\ MagicOnDisk /\ ~VersionOnDisk )
       => reader.res \notin {Ok, VerificationFailed}

\* C13: after read_all on a file whose 6-byte preamble fails verification, the call
\* has failed, the reader stands right after the preamble and its segment is as
\* SegmentData::new left it.
C13_VerifyFailureStopsParsing ==
  ( HasRead /\ Len(fs_bytes) >= 6 /\ ~(MagicOnDisk /\ VersionOnDisk) )
  => /\ reader.res = VerificationFailed
     /\ reader.pos = 6
     /\ reader.segment_data = SegmentData_new

\* read_all has refused a file that holds a whole segment after a bad preamble
C13_Witness ==
  /\ reader.state = "read" /\ reader.res = VerificationFailed
  /\ ~MagicOnDisk
  /\ Len(fs_bytes) > 6 + FixedHeaderBytes
  /\ reader.pos = 6

\* the segment the reader holds
RSeg == reader.segment_data
RHdr == reader.segment_data.data_header

\* stream_rows has run after a read_all that returned Ok
StreamedAfterRead == reader.state = "streamed" /\ reader.res = Ok

\* the stream holds row_count Ok rows, and row i holds, for each of the column_count
\* columns in order, element i of that column
RowsProjectColumns ==
  /\ Len(reader.stream) = RHdr.row_count
  /\ \A i \in 1..Len(reader.stream) :
       /\ reader.stream[i].res = Ok
       /\ Len(reader.stream[i].values) = RHdr.column_count
       /\ \A j \in 1..Len(reader.stream[i].values) :
            /\ j <= Len(RSeg.data)
            /\ i <= Len(RSeg.data[j].data.vec)
            /\ reader.stream[i].values[j].value = RSeg.data[j].data.vec[i]

\* C14: after a successful read_all, stream_rows yields row_count rows in row order,
\* each with column_count values, the j-th being that row's element of column j.
C14_RowsProjectColumns == StreamedAfterRead => RowsProjectColumns

\* the integer and datetime widths
IntegerAndDateTimeTypes == {"Int8", "Int16", "Int32", "Int64", "DateTime32", "DateTime64"}

\* C15: for a loaded segment whose columns are all of an integer or datetime width,
\* no item of the stream stream_rows yields is an error.
C15_IntegerAndDateTimeStreamed ==
  ( /\ StreamedAfterRead
    /\ \A j \in 1..Len(RSeg.data) : RSeg.data[j].data.variant \in IntegerAndDateTimeTypes )
  => \A i \in 1..Len(reader.stream) : reader.stream[i].res = Ok

\* C16: after a successful read_all every slab read was element_width x row_count
\* bytes long and every decoded column has row_count elements.
C16_SlabLengthChecked ==
  ( HasRead /\ reader.res = Ok )
  => \A j \in 1..Len(RSeg.data) :
       /\ RHdr.column_headers[j].column_size
            = ElementWidth(RHdr.column_headers[j].column_type) * RHdr.row_count
       /\ Len(RSeg.data[j].data.vec) = RHdr.row_count

\* C17: when a descriptor read from the file carries an encoding or a compression
\* other than None, read_all fails and that column's slab is not decoded.
C17_CodecRefused ==
  HasRead
  => \A j \in 1..Len(RHdr.column_headers) :
       ( RHdr.column_headers[j].column_enc # "None" \/ RHdr.column_headers[j].column_comp # "None" )
       => /\ reader.res # Ok
          /\ Len(RSeg.data) < j

\* one of the five Option fields write_header needs is unset
AnyFieldUnset(h) ==
  \/ ~IsSome(h.next_offset) \/ ~IsSome(h.uuid_txid)
  \/ ~IsSome(h.date_start) \/ ~IsSome(h.date_end) \/ ~IsSome(h.ts_column)

\* C18: write_header on a header with next_offset, uuid_txid, date_start, date_end
\* or ts_column unset returns a missing-field error and appends no byte to the file.
C18_MissingFieldWritesNothing ==
  [][ ( last'.op = "write_header" /\ saves' # saves /\ AnyFieldUnset(Hdr) )
      => /\ last'.res \in MissingField
         /\ fs_bytes' = fs_bytes ]_vars

\* write_header has refused a header whose only unset field is ts_column, the last
\* one it looks at, and the file is still empty
C18_Witness ==
  /\ last.op = "write_header" /\ last.res = "ts_column was not set"
  /\ IsSome(Hdr.next_offset) /\ IsSome(Hdr.uuid_txid)
  /\ IsSome(Hdr.date_start) /\ IsSome(Hdr.date_end)
  /\ Hdr.column_headers # <<>>
  /\ fs_bytes = <<>>

\* the sum of the column_size values of the writer's descriptors
ColumnSizes == SumSeq([i \in 1..Len(Hdr.column_headers) |-> Hdr.column_headers[i].column_size])

\* C19 as stated: after a successful try_save next_offset is 49 + column_header_size
\* + the column sizes, and calculate_header_size() is 49 + column_header_size.
C19_NextOffsetWithoutChecksum ==
  ( last.op = "try_save" /\ last.res = Ok )
  => /\ Unwrap(Hdr.next_offset) = 49 + Hdr.column_header_size + ColumnSizes
     /\ calculate_header_size(Hdr) = 49 + Hdr.column_header_size

\* C19 amended: after a successful try_save next_offset is 57 + column_header_size
\* + the column sizes, and calculate_header_size() is 57 + column_header_size: the
\* 49 fixed bytes and the 8 bytes of the segment checksum.
C19_NextOffsetWithChecksum ==
  ( last.op = "try_save" /\ last.res = Ok )
  => /\ Unwrap(Hdr.next_offset) = 57 + Hdr.column_header_size + ColumnSizes
     /\ calculate_header_size(Hdr) = 57 + Hdr.column_header_size

\* a try_save has written a segment of two columns with their data
C19_Witness ==
  /\ last.op = "try_save" /\ last.res = Ok
  /\ Len(segment_data.data) = 2
  /\ ColumnSizes > 0

\* the descriptors of the writer's header, serialised one after the other
SerialisedDescriptors ==
  Flatten([i \in 1..Len(Hdr.column_headers) |-> prepare_buffer(Hdr.column_headers[i])])

\* C20: a successful write_header appends 49 + D + 8 bytes, D being the length of
\* the serialised descriptors: the fixed fields little-endian at offsets 0, 1, 5,
\* 21, 29, 37, 41, 43 and 45, the column_header_size field holding D whatever the
\* struct held, then the descriptors, then the 8 checksum bytes.
C20_HeaderLayout ==
  [][ ( last'.op = "write_header" /\ saves' # saves /\ last'.res = Ok )
      => LET b == last'.arg
             D == Len(SerialisedDescriptors)
         IN  /\ fs_bytes' = fs_bytes \o b
             /\ Len(b) = 49 + D + 8
             /\ b[1] = (IF Hdr.tombstone THEN 1 ELSE 0)
             /\ ULEValue(SubSeq(b, 2, 5)) = Unwrap(Hdr.next_offset)
             /\ SubSeq(b, 6, 21) = Unwrap(Hdr.uuid_txid)
             /\ SLEValue(SubSeq(b, 22, 29)) = Unwrap(Hdr.date_start)
             /\ SLEValue(SubSeq(b, 30, 37)) = Unwrap(Hdr.date_end)
             /\ ULEValue(SubSeq(b, 38, 41)) = Hdr.row_count
             /\ ULEValue(SubSeq(b, 42, 43)) = Hdr.column_count
             /\ ULEValue(SubSeq(b, 44, 45)) = Unwrap(Hdr.ts_column)
             /\ ULEValue(SubSeq(b, 46, 49)) = D
             /\ D = HeadersByteSize(Hdr.column_headers)
             /\ SubSeq(b, 50, 49 + D) = SerialisedDescriptors
             /\ SubSeq(b, 50 + D, 57 + D) = <<187, 187, 187, 187, 187, 187, 187, 187>> ]_vars

\* write_header has written a header with a descriptor whose struct held a
\* column_header_size that is not the length of its descriptors
C20_Witness ==
  /\ last.op = "write_header" /\ last.res = Ok
  /\ Len(Hdr.column_headers) = 1
  /\ Hdr.column_header_size = 7
  /\ Len(fs_bytes) = 49 + 25 + 8

\* a call that asks for a timestamp column: set_ts_column, or add_column_header
\* with ts_column = true
AsksTimestamp(call) ==
  \/ call.op = "set_ts_column"
  \/ call.op = "seg_add_column_header" /\ call.arg[2]

\* C21 as stated: once a timestamp column is recorded, every set_ts_column call and
\* every add_column_header call with ts_column = true fails with TimestampAlreadySet
\* and leaves the recorded index as it was.
C21_AlwaysAlreadySet ==
  [][ ( IsSome(Hdr.ts_column) /\ AsksTimestamp(last') )
      => /\ last'.res = TimestampAlreadySet
         /\ Hdr'.ts_column = Hdr.ts_column ]_vars

\* C21 amended: once a timestamp column is recorded, every such call fails and
\* leaves the recorded index as it was; the error is TimestampAlreadySet when the
\* index asked for is below the number of descriptors (always so for
\* add_column_header) and TimestampOutOfBounds for a set_ts_column index that is not.
C21_AlreadySetOrOutOfBounds ==
  [][ ( IsSome(Hdr.ts_column) /\ AsksTimestamp(last') )
      => /\ Hdr'.ts_column = Hdr.ts_column
         /\ last'.res =
              IF last'.op = "set_ts_column" /\ last'.arg >= Len(Hdr.column_headers)
              THEN TimestampOutOfBounds ELSE TimestampAlreadySet ]_vars

\* a set_ts_column call recorded index 0 and a later one, for the second of two
\* descriptors, was refused
C21_Witness ==
  /\ last.op = "set_ts_column" /\ last.arg = 1 /\ last.res = TimestampAlreadySet
  /\ Hdr.ts_column = Some(0)
  /\ Len(Hdr.column_headers) = 2

\* the codes the claim lists
ListedTypeCodes == {1, 2, 3, 4, 6, 7, 8, 9, 11, 12, 13, 16, 17}

\* the error read_from_buffer returns for a code from_u16 does not know
InvalidColumnType == "Invalid column type"

\* C22: from_u16 is defined on exactly the listed codes and from_u16(code(t)) = t
\* for every element type t; read_all on a file with a descriptor that carries any
\* other code fails with the invalid-type error.
C22_TypeCodes ==
  /\ \A code \in 0..MaxTypeCode : IsSome(from_u16(code)) <=> code \in ListedTypeCodes
  /\ \A t \in EnumDataType : from_u16(TypeCode(t)) = Some(t)
  /\ ( HasRead /\ fs_bytes \in UnknownTypeFiles ) => reader.res = InvalidColumnType

\* read_all has refused a file whose second descriptor carries type code 14
C22_Witness ==
  /\ reader.state = "read" /\ reader.res = InvalidColumnType
  /\ \E types \in FileColumnLists :
       /\ Len(types) = 2
       /\ fs_bytes = WithTypeCode(FileBytes(types, 1, 1, <<"None", "None">>, <<>>, "none"), 2, 14)

\* the column of the codec scenarios
Col == segment_data.data[1]

\* byte j (from 1, least significant first) of the two's complement of v on w
\* bytes: floor(v / 256^(j-1)) mod 256, the sign filling the bytes past the fourth
TwosComplementByte(v, j) ==
  CASE j = 1 -> v % 256
    [] j = 2 -> (v \div 256) % 256
    [] j = 3 -> (v \div 65536) % 256
    [] j = 4 -> (v \div 16777216) % 256
    [] OTHER -> IF v < 0 THEN 255 ELSE 0

\* C23: convert_data_into_buffer leaves element_width x len bytes, element i at
\* bytes (i-1)w+1..iw, least significant byte first in two's complement, a Boolean as
\* 0xFF or 0x00 (Int8 [1,2,-3,-4] as 01 02 FD FC); convert_buffer_into_data on the
\* buffer so prepared gives the vector back, and decodes every non-zero byte of a
\* Boolean buffer to true.
C23_CodecRoundTrip ==
  [][ LET w == ElementWidth(Col.data.variant)
          vec == Col.data.vec
      IN
      /\ last'.op = "convert_data_into_buffer"
           => LET buffer == Unwrap(Col'.buffer)
              IN  /\ Len(buffer) = w * Len(vec)
                  /\ last'.arg = Len(buffer)
                  /\ Col'.data = Col.data
                  /\ \A i \in 1..Len(vec) : \A j \in 1..w :
                       buffer[(i - 1) * w + j] =
                         IF Col.data.variant = "Boolean"
                         THEN (IF vec[i] THEN 255 ELSE 0)
                         ELSE TwosComplementByte(vec[i], j)
                  /\ ( Col.data.variant = "Int8" /\ vec = <<1, 2, -3, -4>> )
                       => buffer = <<1, 2, 253, 252>>
      /\ ( last'.op = "convert_buffer_into_data" /\ last.op = "convert_data_into_buffer" )
           => /\ last'.res = Ok
              /\ Col'.data = Col.data
      /\ ( last'.op = "convert_buffer_into_data" /\ IsSome(Col.buffer)
            /\ Col.data.variant = "Boolean" )
           => /\ Len(Col'.data.vec) = Len(Unwrap(Col.buffer))
              /\ \A i \in 1..Len(Col'.data.vec) :
                   Col'.data.vec[i] = (Unwrap(Col.buffer)[i] # 0) ]_vars

\* a vector holding the least Int32 and -1 has been encoded and decoded back
C23_Witness ==
  /\ last.op = "convert_buffer_into_data" /\ last.res = Ok
  /\ Col.data = EnumColumnData("Int32", <<-2147483647 - 1, -1>>)
  /\ ~IsSome(Col.buffer)

\* the bytes the step has appended to the file
Appended == SubSeq(fs_bytes', Len(fs_bytes) + 1, Len(fs_bytes'))

\* the column_size values of the descriptors before the k-th, summed
SlabOffset(column_headers, k) ==
  SumSeq([i \in 1..(k - 1) |-> column_headers[i].column_size])

\* C24: a successful try_save leaves what the file held and appends the 6 bytes
\* 44 46 53 54 01 00, then the segment header (49 fixed bytes, the descriptors in
\* declaration order, the 8 checksum bytes), then the slabs of the data columns in
\* order; descriptor k, as parsed back from these bytes, carries the k-th declared
\* name and type and the length of the k-th slab, which starts where the slabs
\* before it end.
C24_WriteOrder ==
  [][ ( last'.op = "try_save" /\ last'.res = Ok /\ saves' # saves )
      => LET declared == Hdr.column_headers
             D == HeadersByteSize(declared)
             data == segment_data.data
             parsed == read_segment_header(SegmentDataHeader_new, Appended, 6)
             slabs_at == 6 + FixedHeaderBytes + D + 8
         IN  /\ SubSeq(fs_bytes', 1, Len(fs_bytes)) = fs_bytes
             /\ Len(Appended) >= slabs_at
             /\ SubSeq(Appended, 1, 6) = <<68, 70, 83, 84, 1, 0>>
             /\ SubSeq(Appended, slabs_at - 7, slabs_at) = calculate_checksum
             /\ parsed.res = Ok /\ parsed.pos = slabs_at
             /\ Len(parsed.header.column_headers) = Len(declared)
             /\ Len(data) <= Len(declared)
             /\ \A k \in 1..Len(declared) :
                  /\ parsed.header.column_headers[k].column_name = declared[k].column_name
                  /\ parsed.header.column_headers[k].column_type = declared[k].column_type
                  /\ parsed.header.column_headers[k].column_size
                       = (IF k <= Len(data) THEN Len(DataBuffer(data[k].data)) ELSE 0)
             /\ \A k \in 1..Len(data) :
                  Slice(Appended, slabs_at + SlabOffset(parsed.header.column_headers, k) + 1,
                        parsed.header.column_headers[k].column_size)
                    = DataBuffer(data[k].data)
             /\ Len(Appended) = slabs_at + SlabOffset(parsed.header.column_headers, Len(declared) + 1) ]_vars

\* a try_save has appended, after what the file held, a segment of an Int32 column
\* of two rows followed by an Int8 column
C24_Witness ==
  /\ last.op = "try_save" /\ last.res = Ok
  /\ file_exists /\ Len(saves) = 1
  /\ Len(segment_data.data) = 2
  /\ segment_data.data[1].data = EnumColumnData("Int32", <<-1, 2>>)
  /\ segment_data.data[2].data.variant = "Int8"
  /\ Len(fs_bytes) = 3 + 6 + 49 + 25 + 26 + 8 + 8 + 2

\* C25: from a reader whose read_all has returned Ok, no step (stream_rows, a
\* further read_all, read_header or read_data) changes the reader's segment.
C25_SegmentImmutable ==
  [][ ( FurtherCall /\ reader.res = Ok ) => reader'.segment_data = reader.segment_data ]_vars

\* the error kind a reader's result stands for: the two texts for a column name
\* that is no UTF-8 are one kind, every other text stands for itself
FailureKind(res) ==
  IF res \in {"invalid utf-8 sequence", "Failed to decode column name"}
  THEN "BadUtf8ColumnName" ELSE res

\* what TSFReader leaves after new and read_all on the same file
SyncRead == read_all(OpenReader, fs_bytes)

\* C26: after AsyncTSFReader's read_all on a file, its result is of the kind
\* TSFReader's read_all returns on that file and its segment is the one TSFReader
\* holds; its read_all made no seek (every column's file_pos was the position the
\* file stood at); and its stream_rows yields the items TSFReader's does.
C26_AsyncMatchesSync ==
  ( reader.state \in {"aread", "astreamed"} )
  => /\ FailureKind(reader.res) = FailureKind(SyncRead.res)
     /\ reader.segment_data = SyncRead.segment_data
     /\ reader.pos = SyncRead.pos
     /\ reader.state = "aread" => last.arg = <<>>
     /\ reader.state = "astreamed" => reader.stream = stream_rows(SyncRead.segment_data)

\* the async reader has read two columns of two rows and streamed them
C26_Witness ==
  /\ reader.state = "astreamed" /\ reader.res = Ok
  /\ Len(RSeg.data) = 2
  /\ Len(reader.stream) = 2
  /\ reader.stream[2].res = Ok /\ Len(reader.stream[2].values) = 2

\* C27: whenever try_save has returned Ok on a writer that created its file, the
\* file is one preamble followed by one segment: read_all on it succeeds, ends at
\* the end of the file and returns the writer's segment, whatever earlier try_save
\* calls returned.
C27_OneHeaderOneSegment ==
  ( w_state = "open" /\ ~file_exists /\ last.op = "try_save" /\ last.res = Ok )
  => LET r == read_all(OpenReader, fs_bytes)
     IN  /\ r.res = Ok
         /\ r.pos = Len(fs_bytes)
         /\ SameSegment(r.segment_data, segment_data)

\* C28: after a successful try_save every data column is of the variant its
\* descriptor declares, and the column_size written for it is the width of the
\* declared type times row_count.
C28_VariantMatchesDeclaredType ==
  ( last.op = "try_save" /\ last.res = Ok )
  => \A i \in 1..Len(segment_data.data) :
       /\ segment_data.data[i].data.variant = Hdr.column_headers[i].column_type
       /\ Hdr.column_headers[i].column_size
            = ElementWidth(Hdr.column_headers[i].column_type) * Hdr.row_count

\* C29: an add_column_header that fails because a timestamp column is already
\* set leaves column_count, the descriptor list and column_header_size as they
\* were before the call.
C29_FailedAddLeavesSegment ==
  [][ ( last'.op = "add_column_header" /\ last'.res = TimestampAlreadySet )
      => /\ segment_data'.data_header.column_count = Hdr.column_count
         /\ segment_data'.data_header.column_headers = Hdr.column_headers
         /\ segment_data'.data_header.column_header_size = Hdr.column_header_size ]_vars

\* C30: when stream_rows is called after a read_all that returned an error,
\* the stream holds no Ok row: it is empty or a single error.
C30_NoRowsAfterFailedRead ==
  ( reader.state = "streamed" /\ reader.res # Ok )
  => /\ \A i \in 1..Len(reader.stream) : reader.stream[i].res # Ok
     /\ Len(reader.stream) <= 1

====
